---- MODULE Spec2Model ----
(***************************************************************************)
(* A model of ratunit: the junit-parser crate (data model, aggregation,    *)
(* classification, parse_str, parse_file, parse_directory) and the ratunit *)
(* binary: its start-up path (main), the viewer's App with its key         *)
(* handlers, and the aggregates of the status bar.                         *)
(*                                                                         *)
(* Option<T> is modelled as a sequence of length 0 (None) or 1 (Some(x)).  *)
(* Strings the code inspects byte by byte are sequences of one-character   *)
(* strings.  u64 is modelled with U64_BITS bits instead of 64.             *)
(***************************************************************************)
EXTENDS Integers, Sequences, FiniteSets, TLC

VARIABLES
    report,     \* aggregation: the TestSuites value the accessors are called on
    tcase,      \* aggregation: the TestCase status() is called on
    ret,        \* aggregation: the last accessor call and what it returned
    overflow_checks, \* aggregation: whether the build checks integer overflow
    doc,        \* parse_str: the document handed to parse_str
    pret,       \* parse_str: what parse_str returned
    trim_text,  \* parse_str: whether the deserializer of the build trims text
    path,       \* main: what the command-line path names
    fs,         \* main: the entries of the directory (or the single file)
    pending,    \* parse_directory: entries read_dir has not yielded yet
    results,    \* parse_directory: the local Vec `results`
    parsed,     \* parse_directory: names whose content parse_file was called on
    pf_ret,     \* parse_directory/main: what the last parse_file call returned
    pd_ret,     \* what parse_directory returned
    pc,         \* main: position in main / parse_directory
    outcome,    \* main: how main ended (error chain or the App it built)
    app,        \* viewer: the App
    key,        \* viewer: the handler the last key press ran
    before,     \* viewer (history): the App before the last key press
    run,        \* viewer (history): the current run of presses of one file key
    bar         \* viewer: the aggregates the status bar last displayed

aggVars   == <<report, tcase, ret, overflow_checks>>
parseVars == <<doc, pret, trim_text>>
dirVars   == <<path, fs, pending, results, parsed, pf_ret, pd_ret, pc, outcome>>
appVars   == <<app, key, before, run, bar>>
vars      == <<report, tcase, ret, overflow_checks, doc, pret, trim_text, path, fs, pending, results,
               parsed, pf_ret, pd_ret, pc, outcome, app, key, before, run, bar>>

-----------------------------------------------------------------------------
(* Bounds of the model *)

\* width of the model's u64 in bits
U64_BITS == 3
\* longest suite sequence of a Report drawn for the accessors
MaxSuites == 2

-----------------------------------------------------------------------------
(* Option<T> *)

None == <<>>
Some(x) == <<x>>
is_some(o) == o # <<>>
unwrap_or(o, d) == IF o = <<>> THEN d ELSE o[1]

-----------------------------------------------------------------------------
(* u64 arithmetic.  A checked value is [ok, val]: ok = FALSE is a panic.   *)
(* `+` and Iterator::sum panic on overflow when the build has overflow     *)
(* checks (debug) and wrap otherwise (release): oc is the build's setting. *)

U64_MAX == 2 ^ U64_BITS - 1

Val(n) == [ok |-> TRUE, val |-> n]
Panic == [ok |-> FALSE, val |-> 0]

add(a, b, oc) ==
    IF ~a.ok \/ ~b.ok THEN Panic
    ELSE IF a.val + b.val <= U64_MAX THEN Val(a.val + b.val)
    ELSE IF oc THEN Panic
    ELSE Val((a.val + b.val) % (U64_MAX + 1))

saturating_sub(a, b) ==
    IF ~a.ok \/ ~b.ok THEN Panic
    ELSE IF a.val >= b.val THEN Val(a.val - b.val)
    ELSE Val(0)

RECURSIVE sum(_, _)
sum(s, oc) ==
    IF s = <<>> THEN Val(0)
    ELSE add(sum(SubSeq(s, 1, Len(s) - 1), oc), Val(s[Len(s)]), oc)

map(s, f(_)) == [i \in 1..Len(s) |-> f(s[i])]

-----------------------------------------------------------------------------
(* The data model *)

TestStatus == {"Passed", "Failed", "Errored", "Skipped"}

\* system_out and system_err, which nothing but the detail view reads, are
\* left out; a TestCase or TestSuite built by hand has its other fields None.
TestCase(name, failure, error, skipped) ==
    [classname |-> None, name |-> name, time |-> None, file |-> None,
     failure |-> failure, error |-> error, skipped |-> skipped]

TestSuite(name, tests, failures, errors, skipped, test_cases) ==
    [name |-> name, timestamp |-> None, time |-> None, tests |-> tests,
     failures |-> failures, errors |-> errors, skipped |-> skipped,
     properties |-> None, test_cases |-> test_cases]

Property(name, value) == [name |-> name, value |-> value]

Properties(properties) == [properties |-> properties]

TestSuites(tests, failures, errors, skipped, suites) ==
    [tests |-> tests, failures |-> failures, errors |-> errors,
     skipped |-> skipped, suites |-> suites]

-----------------------------------------------------------------------------
(* TestCase::status *)

\* status with the Skipped marker looked at first
status_skipped_first(tc) ==
    IF is_some(tc.skipped) THEN "Skipped"
    ELSE IF is_some(tc.failure) THEN "Failed"
    ELSE IF is_some(tc.error) THEN "Errored"
    ELSE "Passed"

status(tc) ==
    IF is_some(tc.failure) THEN "Failed"
    ELSE IF is_some(tc.error) THEN "Errored"
    ELSE IF is_some(tc.skipped) THEN "Skipped"
    ELSE "Passed"

-----------------------------------------------------------------------------
(* TestSuites accessors *)

suite_tests(s) == s.tests
suite_failures(s) == s.failures
suite_errors(s) == s.errors
\* skipped falling back on the count of the suite's Skipped cases
suite_skipped_counts_cases(s) ==
    unwrap_or(s.skipped,
              Len(SelectSeq(s.test_cases, LAMBDA tc : status(tc) = "Skipped")))
suite_skipped(s) == unwrap_or(s.skipped, 0)

total_tests(r, oc) == sum(map(r.suites, suite_tests), oc)

total_failures(r, oc) == sum(map(r.suites, suite_failures), oc)

total_errors(r, oc) == sum(map(r.suites, suite_errors), oc)

total_skipped(r, oc) == sum(map(r.suites, suite_skipped), oc)

total_passed(r, oc) ==
    LET total == total_tests(r, oc)
        non_pass == add(add(total_failures(r, oc), total_errors(r, oc), oc),
                        total_skipped(r, oc), oc)
    IN  saturating_sub(total, non_pass)

-----------------------------------------------------------------------------
(* Values the other parts hold while one part of the model runs *)

NoCall == [fn |-> "none", ok |-> TRUE, val |-> 0]
EmptyReport == TestSuites(None, None, None, None, <<>>)

AggIdle ==
    report = EmptyReport /\ tcase = None /\ ret = NoCall /\ overflow_checks = FALSE

-----------------------------------------------------------------------------
(* Aggregation and classification: the inputs *)

Marker == [message |-> None, body |-> None]
MarkerOpts == {None, Some(Marker)}

TestCases ==
    {TestCase("t", f, e, s) : f \in MarkerOpts, e \in MarkerOpts, s \in MarkerOpts}

SkippedOnlyCase == TestCase("t", None, None, Some(Marker))
FailedCase == TestCase("t", Some(Marker), None, None)

Suites ==
    {TestSuite("s", t, f, e, sk, <<>>) :
        t \in {0, 2, U64_MAX}, f \in {0, U64_MAX}, e \in {0, 1},
        sk \in {None, Some(1)}}
    \cup {TestSuite("s", 0, 0, 0, None, <<SkippedOnlyCase>>),
          TestSuite("s", 2, 0, 0, None, <<FailedCase, SkippedOnlyCase>>)}

SuiteSeqs == UNION {[1..n -> Suites] : n \in 0..MaxSuites}

Declared == {<<None, None, None, None>>, <<Some(1), Some(0), Some(1), Some(2)>>}

Reports ==
    {TestSuites(d[1], d[2], d[3], d[4], ss) : d \in Declared, ss \in SuiteSeqs}

-----------------------------------------------------------------------------------------------------------------------------------------------------
(* Aggregation and classification: one action per accessor call on the     *)
(* value drawn at the start.  A call may be repeated.                      *)

Returned(fn, r) == [fn |-> fn, ok |-> r.ok, val |-> r.val]

CallStatus ==
    /\ ret.fn \in {"none", "status"}
    /\ \E tc \in TestCases :
        /\ tcase' = Some(tc)
        /\ ret' = [fn |-> "status", ok |-> TRUE, val |-> status(tc)]
    /\ UNCHANGED <<report, overflow_checks, parseVars, dirVars, appVars>>

CallTotalTests ==
    /\ ret.fn \in {"none", "total_tests"}
    /\ ret' = Returned("total_tests", total_tests(report, overflow_checks))
    /\ UNCHANGED <<report, tcase, overflow_checks, parseVars, dirVars, appVars>>

CallTotalFailures ==
    /\ ret.fn \in {"none", "total_failures"}
    /\ ret' = Returned("total_failures", total_failures(report, overflow_checks))
    /\ UNCHANGED <<report, tcase, overflow_checks, parseVars, dirVars, appVars>>

CallTotalErrors ==
    /\ ret.fn \in {"none", "total_errors"}
    /\ ret' = Returned("total_errors", total_errors(report, overflow_checks))
    /\ UNCHANGED <<report, tcase, overflow_checks, parseVars, dirVars, appVars>>

CallTotalSkipped ==
    /\ ret.fn \in {"none", "total_skipped"}
    /\ ret' = Returned("total_skipped", total_skipped(report, overflow_checks))
    /\ UNCHANGED <<report, tcase, overflow_checks, parseVars, dirVars, appVars>>

CallTotalPassed ==
    /\ ret.fn \in {"none", "total_passed"}
    /\ ret' = Returned("total_passed", total_passed(report, overflow_checks))
    /\ UNCHANGED <<report, tcase, overflow_checks, parseVars, dirVars, appVars>>

-----------------------------------------------------------------------------
(* &str operations parse_str uses, on sequences of characters.  Indexes    *)
(* are 0-based as in Rust; find returns an Option.                         *)

WhiteSpace == {" ", "\n", "\t", "\r"}

RECURSIVE trim_start(_)
trim_start(s) ==
    IF s # <<>> /\ s[1] \in WhiteSpace THEN trim_start(Tail(s)) ELSE s

starts_with(s, p) == Len(s) >= Len(p) /\ SubSeq(s, 1, Len(p)) = p

slice_from(s, i) == SubSeq(s, i + 1, Len(s))

find(s, c) ==
    IF \E k \in 1..Len(s) : s[k] = c
    THEN Some((CHOOSE k \in 1..Len(s) :
                  s[k] = c /\ \A j \in 1..(k - 1) : s[j] # c) - 1)
    ELSE None

and_then(o, f(_)) == IF o = None THEN None ELSE f(o[1])

LT_QUESTION == <<"<", "?">>
LT_TESTSUITE_SPACE == <<"<", "t", "e", "s", "t", "s", "u", "i", "t", "e", " ">>
LT_TESTSUITE_GT == <<"<", "t", "e", "s", "t", "s", "u", "i", "t", "e", ">">>

-----------------------------------------------------------------------------
(* Errors: an anyhow error is its chain of contexts, outermost first; each *)
(* context is a message and the path the message displays, if any.         *)

Ctx(msg, p) == [msg |-> msg, path |-> p]
Ok(v) == [ok |-> TRUE, val |-> v, err |-> <<>>]
Err(chain, dflt) == [ok |-> FALSE, val |-> dflt, err |-> chain]
context(r, c) == IF r.ok THEN r ELSE [r EXCEPT !.err = <<c>> \o r.err]

-----------------------------------------------------------------------------
(* Documents.  A document is its text together with the element tree the   *)
(* text spells; quick_xml::de::from_str is modelled on the tree, by the    *)
(* serde attributes of the struct it deserializes into.  It does not look  *)
(* at the root element's name, ignores unknown attributes and children,    *)
(* and fails on text that is not well-formed.                              *)

Elem(tag, attrs, children) ==
    [tag |-> tag, attrs |-> attrs, children |-> children, content |-> <<>>]

\* an element holding character data and no child element; its content is
\* a sequence of text and CDATA nodes, each with its characters as written
TextElem(tag, attrs, content) ==
    [tag |-> tag, attrs |-> attrs, children |-> <<>>, content |-> content]

attr(e, n) == e.attrs[n]

child(e, tag) ==
    LET cs == SelectSeq(e.children, LAMBDA c : c.tag = tag)
    IN  IF cs = <<>> THEN None ELSE Some(cs[1])

\* the predefined entities, as character data spells them
ENTITIES ==
    {[name |-> <<"l", "t">>, char |-> "<"],
     [name |-> <<"g", "t">>, char |-> ">"],
     [name |-> <<"a", "m", "p">>, char |-> "&"],
     [name |-> <<"q", "u", "o", "t">>, char |-> "\""],
     [name |-> <<"a", "p", "o", "s">>, char |-> "'"]}

RECURSIVE unescape(_)
unescape(raw) ==
    IF raw = <<>> THEN <<>>
    ELSE IF Head(raw) = "&"
    THEN LET semi == find(raw, ";")
             name == SubSeq(raw, 2, semi[1])
             ent  == CHOOSE k \in ENTITIES : k.name = name
         IN  <<ent.char>> \o unescape(slice_from(raw, semi[1] + 1))
    ELSE <<Head(raw)>> \o unescape(Tail(raw))

RECURSIVE trim_end(_)
trim_end(s) ==
    IF s # <<>> /\ s[Len(s)] \in WhiteSpace THEN trim_end(SubSeq(s, 1, Len(s) - 1))
    ELSE s

RECURSIVE concat(_)
concat(ss) == IF ss = <<>> THEN <<>> ELSE Head(ss) \o concat(Tail(ss))

\* the "$text" of an element: its text and CDATA nodes joined, text nodes
\* unescaped and CDATA taken as written.  A deserializer that trims text
\* trims a text node (never CDATA) at the element's start and at its end
\* and drops a text node that trimming left empty.
text_of(e) ==
    LET n == Len(e.content)
        node(i) ==
            LET c == e.content[i]
                t1 == IF trim_text /\ i = 1 THEN trim_start(c.raw) ELSE c.raw
                t2 == IF trim_text /\ i = n THEN trim_end(t1) ELSE t1
            IN  IF c.kind = "cdata" THEN [kept |-> TRUE, chars |-> c.raw]
                ELSE [kept |-> ~trim_text \/ t2 # <<>>, chars |-> unescape(t2)]
        kept == SelectSeq([i \in 1..n |-> node(i)], LAMBDA x : x.kept)
    IN  IF kept = <<>> THEN None
        ELSE Some(concat([i \in 1..Len(kept) |-> kept[i].chars]))

de_Marker(e) == [message |-> attr(e, "message"), body |-> text_of(e)]

de_opt_Marker(o) == IF o = None THEN None ELSE Some(de_Marker(o[1]))

\* Skipped has one field, message, read from the element's text
de_Skipped(e) == [message |-> text_of(e), body |-> None]

de_opt_Skipped(o) == IF o = None THEN None ELSE Some(de_Skipped(o[1]))

de_TestCase(e) ==
    [TestCase(unwrap_or(attr(e, "name"), ""),
              de_opt_Marker(child(e, "failure")),
              de_opt_Marker(child(e, "error")),
              de_opt_Skipped(child(e, "skipped")))
        EXCEPT !.classname = attr(e, "classname"),
               !.time = attr(e, "time"),
               !.file = attr(e, "file")]

\* Property's name and value have no default: their absence is an error
de_Property_missing_field(e) == attr(e, "name") = None \/ attr(e, "value") = None

de_Property(e) ==
    Property(unwrap_or(attr(e, "name"), ""), unwrap_or(attr(e, "value"), ""))

de_Properties(e) ==
    Properties(map(SelectSeq(e.children, LAMBDA c : c.tag = "property"),
                   de_Property))

de_opt_Properties(o) == IF o = None THEN None ELSE Some(de_Properties(o[1]))

de_TestSuite(e) ==
    [TestSuite(unwrap_or(attr(e, "name"), ""),
               unwrap_or(attr(e, "tests"), 0),
               unwrap_or(attr(e, "failures"), 0),
               unwrap_or(attr(e, "errors"), 0),
               attr(e, "skipped"),
               map(SelectSeq(e.children, LAMBDA c : c.tag = "testcase"),
                   de_TestCase))
        EXCEPT !.timestamp = attr(e, "timestamp"),
               !.time = attr(e, "time"),
               !.properties = de_opt_Properties(child(e, "properties"))]

\* a TestSuite whose name had no default
de_TestSuite_requires_name(e) ==
    LET ps == child(e, "properties")
    IN  \/ attr(e, "name") = None
        \/ /\ ps # None
           /\ \E i \in 1..Len(ps[1].children) :
                 /\ ps[1].children[i].tag = "property"
                 /\ de_Property_missing_field(ps[1].children[i])

de_TestSuite_fails(e) ==
    LET ps == child(e, "properties")
    IN  /\ ps # None
        /\ \E i \in 1..Len(ps[1].children) :
              /\ ps[1].children[i].tag = "property"
              /\ de_Property_missing_field(ps[1].children[i])

de_TestSuites_fails(e) ==
    \E i \in 1..Len(e.children) :
        e.children[i].tag = "testsuite" /\ de_TestSuite_fails(e.children[i])

de_TestSuites(e) ==
    TestSuites(attr(e, "tests"), attr(e, "failures"), attr(e, "errors"),
               attr(e, "skipped"),
               map(SelectSeq(e.children, LAMBDA c : c.tag = "testsuite"),
                   de_TestSuite))

DE_ERROR == Ctx("quick_xml::DeError", None)

from_str_TestSuite(d) ==
    IF d.well_formed /\ ~de_TestSuite_fails(d.root) THEN Ok(de_TestSuite(d.root))
    ELSE Err(<<DE_ERROR>>, EmptyReport)

from_str_TestSuites(d) ==
    IF d.well_formed /\ ~de_TestSuites_fails(d.root) THEN Ok(de_TestSuites(d.root))
    ELSE Err(<<DE_ERROR>>, EmptyReport)

-----------------------------------------------------------------------------
(* parse_str *)

root_is_testsuite(xml) ==
    LET trimmed == trim_start(xml)
        second(i) ==
            LET j == find(slice_from(trimmed, i + 1), "<")
            IN  IF j = None THEN None ELSE Some(i + 1 + j[1])
        at(i) ==
            \/ starts_with(slice_from(trimmed, i), LT_TESTSUITE_SPACE)
            \/ starts_with(slice_from(trimmed, i), LT_TESTSUITE_GT)
        after_decl == and_then(find(trimmed, "<"), second)
    IN  \/ /\ starts_with(trimmed, LT_QUESTION)
           /\ IF after_decl = None THEN FALSE ELSE at(after_decl[1])
        \/ starts_with(trimmed, LT_TESTSUITE_SPACE)
        \/ starts_with(trimmed, LT_TESTSUITE_GT)

parse_str(d) ==
    IF root_is_testsuite(d.text)
    THEN LET r == context(from_str_TestSuite(d),
                          Ctx("Failed to parse JUnit XML (testsuite root)", None))
         IN  IF ~r.ok THEN r
             ELSE LET suite == r.val
                  IN  Ok(TestSuites(Some(suite.tests), Some(suite.failures),
                                    Some(suite.errors), suite.skipped, <<suite>>))
    ELSE context(from_str_TestSuites(d), Ctx("Failed to parse JUnit XML", None))

-----------------------------------------------------------------------------
(* The documents parse_str is run on: a prolog, a root element (a bare     *)
(* suite or the wrapper), how the root's start tag goes on after its name, *)
(* and whether the text is cut before the root's end tag (not well-formed).*)

\* most child suites of a wrapper root
MaxChildren == 2

NoAttrs ==
    [name |-> None, timestamp |-> None, time |-> None, tests |-> None,
     failures |-> None, errors |-> None, skipped |-> None, classname |-> None,
     file |-> None, message |-> None, value |-> None]

AttrOrder ==
    <<"name", "timestamp", "time", "tests", "failures", "errors", "skipped",
      "classname", "file", "message", "value">>

TextOf(str) ==
    CASE str = "testsuite"  -> <<"t", "e", "s", "t", "s", "u", "i", "t", "e">>
      [] str = "testsuites" -> <<"t", "e", "s", "t", "s", "u", "i", "t", "e", "s">>
      [] str = "testcase"   -> <<"t", "e", "s", "t", "c", "a", "s", "e">>
      [] str = "failure"    -> <<"f", "a", "i", "l", "u", "r", "e">>
      [] str = "error"      -> <<"e", "r", "r", "o", "r">>
      [] str = "skipped"    -> <<"s", "k", "i", "p", "p", "e", "d">>
      [] str = "name"       -> <<"n", "a", "m", "e">>
      [] str = "tests"      -> <<"t", "e", "s", "t", "s">>
      [] str = "failures"   -> <<"f", "a", "i", "l", "u", "r", "e", "s">>
      [] str = "errors"     -> <<"e", "r", "r", "o", "r", "s">>
      [] str = "message"    -> <<"m", "e", "s", "s", "a", "g", "e">>
      [] str = "report"     -> <<"r", "e", "p", "o", "r", "t">>
      [] str = "properties" -> <<"p", "r", "o", "p", "e", "r", "t", "i", "e", "s">>
      [] str = "property"   -> <<"p", "r", "o", "p", "e", "r", "t", "y">>
      [] str = "timestamp"  -> <<"t", "i", "m", "e", "s", "t", "a", "m", "p">>
      [] str = "time"       -> <<"t", "i", "m", "e">>
      [] str = "classname"  -> <<"c", "l", "a", "s", "s", "n", "a", "m", "e">>
      [] str = "file"       -> <<"f", "i", "l", "e">>
      [] str = "value"      -> <<"v", "a", "l", "u", "e">>
      [] OTHER              -> <<str>>

Digit == <<"0", "1", "2", "3", "4", "5", "6", "7", "8", "9">>

RECURSIVE decimal(_)
decimal(n) ==
    IF n < 10 THEN <<Digit[n + 1]>>
    ELSE decimal(n \div 10) \o <<Digit[(n % 10) + 1]>>

value_text(n, v) ==
    IF n \in {"tests", "failures", "errors", "skipped", "time"} THEN decimal(v)
    ELSE TextOf(v)

\* character data as a writer spells it: markup characters as entities
RECURSIVE escape(_)
escape(chars) ==
    IF chars = <<>> THEN <<>>
    ELSE (CASE Head(chars) = "<" -> <<"&", "l", "t", ";">>
            [] Head(chars) = ">" -> <<"&", "g", "t", ";">>
            [] Head(chars) = "&" -> <<"&", "a", "m", "p", ";">>
            [] OTHER -> <<Head(chars)>>)
         \o escape(Tail(chars))

TextNode(chars) == [kind |-> "text", raw |-> escape(chars), chars |-> chars]
CDataNode(chars) == [kind |-> "cdata", raw |-> chars, chars |-> chars]

CDATA_OPEN == <<"<", "!", "[", "C", "D", "A", "T", "A", "[">>
CDATA_CLOSE == <<"]", "]", ">">>

RECURSIVE content_text(_)
content_text(c) ==
    IF c = <<>> THEN <<>>
    ELSE (IF Head(c).kind = "cdata" THEN CDATA_OPEN \o Head(c).raw \o CDATA_CLOSE
          ELSE Head(c).raw)
         \o content_text(Tail(c))

RECURSIVE attrs_text(_, _, _)
attrs_text(a, i, sep) ==
    IF i > Len(AttrOrder) THEN <<>>
    ELSE LET n == AttrOrder[i]
         IN  (IF a[n] = None THEN <<>>
              ELSE sep \o TextOf(n) \o <<"=", "\"">> \o value_text(n, a[n][1]) \o <<"\"">>)
             \o attrs_text(a, i + 1, <<" ">>)

RECURSIVE elem_text(_)
RECURSIVE elems_text(_)
elem_text(e) ==
    <<"<">> \o TextOf(e.tag) \o attrs_text(e.attrs, 1, <<" ">>)
    \o (IF e.children = <<>> /\ e.content = <<>> THEN <<"/", ">">>
        ELSE <<">">> \o elems_text(e.children) \o content_text(e.content)
             \o <<"<", "/">> \o TextOf(e.tag) \o <<">">>)
elems_text(es) == IF es = <<>> THEN <<>> ELSE elem_text(Head(es)) \o elems_text(Tail(es))

XML_DECL ==
    <<"<", "?", "x", "m", "l", " ", "v", "e", "r", "s", "i", "o", "n", "=",
      "\"", "1", ".", "0", "\"", "?", ">">>
COMMENT == <<"<", "!", "-", "-", "c", "-", "-", ">">>
PI_WITH_TAG == <<"<", "?", "p", " ">> \o LT_TESTSUITE_GT \o <<"?", ">">>

Prologs ==
    {<<>>, <<"\n", " ">>, XML_DECL, XML_DECL \o <<"\n">>, COMMENT,
     XML_DECL \o <<"\n">> \o COMMENT \o <<"\n">>, PI_WITH_TAG}

\* how the root's start tag goes on after the element name
RootTails == {"space", "newline", "gt", "selfclose"}

root_text(e, tail, well_formed) ==
    <<"<">> \o TextOf(e.tag)
    \o (CASE tail = "space"     -> <<" ">> \o attrs_text(e.attrs, 1, <<>>) \o <<">">>
          [] tail = "newline"   -> <<"\n">> \o attrs_text(e.attrs, 1, <<>>) \o <<">">>
          [] tail = "gt"        -> <<">">>
          [] tail = "selfclose" -> <<"/", ">">>)
    \o (IF tail = "selfclose" THEN <<>>
        ELSE elems_text(e.children)
             \o (IF well_formed THEN <<"<", "/">> \o TextOf(e.tag) \o <<">">> ELSE <<>>))

Document(prolog, e, tail, well_formed) ==
    [text |-> prolog \o root_text(e, tail, well_formed), root |-> e,
     prolog |-> prolog, tail |-> tail, well_formed |-> well_formed]

PassCaseElem == Elem("testcase", [NoAttrs EXCEPT !.name = Some("t")], <<>>)
FailCaseElem ==
    Elem("testcase", [NoAttrs EXCEPT !.name = Some("t")],
         <<Elem("failure", [NoAttrs EXCEPT !.message = Some("m")], <<>>)>>)

SuiteAttrs ==
    {NoAttrs,
     [NoAttrs EXCEPT !.tests = Some(2), !.failures = Some(1), !.errors = Some(0)],
     [NoAttrs EXCEPT !.name = Some("s"), !.tests = Some(1), !.failures = Some(0),
                     !.errors = Some(1), !.skipped = Some(1)]}

SuiteElems ==
    {Elem("testsuite", a, cs) :
        a \in SuiteAttrs, cs \in {<<>>, <<PassCaseElem, FailCaseElem>>}}

ChildSuiteElems ==
    {Elem("testsuite", [NoAttrs EXCEPT !.name = Some("s"), !.tests = Some(1)],
          <<PassCaseElem>>),
     Elem("testsuite", [NoAttrs EXCEPT !.tests = Some(2), !.failures = Some(1)],
          <<FailCaseElem, PassCaseElem>>)}

WrapperElems ==
    {Elem("testsuites", a, cs) :
        a \in {NoAttrs, [NoAttrs EXCEPT !.tests = Some(3)]},
        cs \in UNION {[1..n -> ChildSuiteElems] : n \in 0..MaxChildren}}

\* suites exercising the optional attributes and children
BareCaseElem == Elem("testcase", NoAttrs, <<>>)
FullCaseElem ==
    Elem("testcase",
         [NoAttrs EXCEPT !.classname = Some("c"), !.name = Some("t"),
                         !.time = Some(1), !.file = Some("f")],
         <<>>)

PropertyElem == Elem("property", [NoAttrs EXCEPT !.name = Some("k"), !.value = Some("v")], <<>>)
NoValuePropertyElem == Elem("property", [NoAttrs EXCEPT !.name = Some("k")], <<>>)
NoNamePropertyElem == Elem("property", [NoAttrs EXCEPT !.value = Some("v")], <<>>)

PropertiesElems ==
    {Elem("properties", NoAttrs, ps) :
        ps \in {<<>>, <<PropertyElem>>, <<PropertyElem, NoValuePropertyElem>>,
                <<NoNamePropertyElem>>}}

OptionalSuiteElems ==
    {Elem("testsuite", NoAttrs, <<BareCaseElem>>)}
    \cup {Elem("testsuite", NoAttrs, <<ps>>) : ps \in PropertiesElems}
    \cup {Elem("testsuite",
               [NoAttrs EXCEPT !.name = Some("s"), !.timestamp = Some("d"),
                               !.time = Some(1), !.tests = Some(2)],
               <<ps, BareCaseElem, FullCaseElem>>) : ps \in PropertiesElems}

OptionalElems ==
    OptionalSuiteElems
    \cup {Elem("testsuites", NoAttrs, <<e>>) : e \in OptionalSuiteElems}

\* suites whose one test case carries a failure or error with a body, the
\* same characters written as escaped text or as a CDATA section
Bodies ==
    {<<"a", "<", "b">>, <<"x", "&", "y">>, <<"a", " ", "b">>,
     <<" ", "x">>, <<"x", "\n">>}

BodyElems ==
    {TextElem(tag, a, <<n>>) :
        tag \in {"failure", "error"},
        a \in {NoAttrs, [NoAttrs EXCEPT !.message = Some("m")]},
        n \in {TextNode(c) : c \in Bodies} \cup {CDataNode(c) : c \in Bodies}}

BodySuiteElems ==
    {Elem("testsuite", [NoAttrs EXCEPT !.name = Some("s")],
          <<Elem("testcase", [NoAttrs EXCEPT !.name = Some("t")], <<b>>)>>) :
        b \in BodyElems}

\* roots named by neither convention
OtherRootElems ==
    {Elem("report", NoAttrs, cs) :
        cs \in {<<>>} \cup {<<c>> : c \in ChildSuiteElems}}

TailFits(e, tail) ==
    /\ tail \in {"gt", "selfclose"} => e.attrs = NoAttrs
    /\ tail = "selfclose" => e.children = <<>>

Docs ==
    {d \in {Document(p, e, t, wf) :
                p \in Prologs,
                e \in SuiteElems \cup WrapperElems \cup OtherRootElems
                     \cup OptionalElems \cup BodySuiteElems,
                t \in RootTails, wf \in BOOLEAN} :
        TailFits(d.root, d.tail) /\ (d.tail = "selfclose" => d.well_formed)}

-----------------------------------------------------------------------------
(* parse_str under test: the document is drawn at the start, ParseStr      *)
(* applies parse_str to it and records the detection and the result.       *)

NoDoc == Document(<<>>, Elem("testsuites", NoAttrs, <<>>), "selfclose", TRUE)
NotParsed == [called |-> FALSE, root_is_testsuite |-> FALSE, res |-> Ok(EmptyReport)]

ParseIdle == doc = NoDoc /\ pret = NotParsed /\ trim_text = FALSE

ParseStr ==
    /\ ~pret.called
    /\ pret' = [called |-> TRUE, root_is_testsuite |-> root_is_testsuite(doc.text),
                res |-> parse_str(doc)]
    /\ UNCHANGED <<doc, trim_text, aggVars, dirVars, appVars>>

-----------------------------------------------------------------------------
(* Values the directory scan and main hold while another part runs *)

NoParseFile == [called |-> FALSE, name |-> <<>>, res |-> Ok(EmptyReport)]
NotReturned == [returned |-> FALSE, res |-> Ok(<<>>)]
Running == [kind |-> "running", err |-> <<>>, files |-> <<>>]

DirIdle ==
    /\ path = [kind |-> "none", name |-> <<>>, readable |-> FALSE] /\ fs = {} /\ pending = {} /\ results = <<>>
    /\ parsed = <<>> /\ pf_ret = NoParseFile /\ pd_ret = NotReturned
    /\ pc = "idle" /\ outcome = Running

-----------------------------------------------------------------------------
(* File names, Path::extension and String ordering *)

\* most entries of the scanned directory
MaxEntries == 3

Byte(c) ==
    CASE c = "." -> 46 [] c = "/" -> 47
      [] c = "B" -> 66 [] c = "L" -> 76 [] c = "M" -> 77 [] c = "X" -> 88
      [] c = "a" -> 97 [] c = "b" -> 98 [] c = "c" -> 99 [] c = "d" -> 100
      [] c = "l" -> 108 [] c = "m" -> 109 [] c = "t" -> 116 [] c = "x" -> 120

\* Ord of a.cmp(b) on Strings: byte-wise lexicographic, a prefix first
RECURSIVE cmp(_, _)
cmp(a, b) ==
    IF a = <<>> THEN (IF b = <<>> THEN "Equal" ELSE "Less")
    ELSE IF b = <<>> THEN "Greater"
    ELSE IF Byte(Head(a)) < Byte(Head(b)) THEN "Less"
    ELSE IF Byte(Head(a)) > Byte(Head(b)) THEN "Greater"
    ELSE cmp(Tail(a), Tail(b))

\* Path::extension of a file name: what follows the last '.', unless there
\* is none or the only one starts the name
extension(name) ==
    LET dots == {k \in 1..Len(name) : name[k] = "."}
    IN  IF dots = {} THEN None
        ELSE LET last == CHOOSE k \in dots : \A j \in dots : j <= k
             IN  IF last = 1 THEN None ELSE Some(SubSeq(name, last + 1, Len(name)))

EXT_XML == <<"x", "m", "l">>

is_xml(name) == extension(name) = Some(EXT_XML)

\* results.sort_by(|a, b| a.0.cmp(&b.0)): a stable sort, as insertion sort
RECURSIVE insert_sorted(_, _)
insert_sorted(sorted, x) ==
    IF sorted = <<>> THEN <<x>>
    ELSE IF cmp(x[1], sorted[Len(sorted)][1]) = "Less"
         THEN insert_sorted(SubSeq(sorted, 1, Len(sorted) - 1), x)
              \o <<sorted[Len(sorted)]>>
         ELSE sorted \o <<x>>

\* the results left in the order read_dir yielded them
sort_by_name_skipped(s) == s

RECURSIVE sort_by_name(_)
sort_by_name(s) ==
    IF s = <<>> THEN <<>>
    ELSE insert_sorted(sort_by_name(SubSeq(s, 1, Len(s) - 1)), s[Len(s)])

-----------------------------------------------------------------------------
(* The file system main is run on *)

FileNames ==
    {<<"a", ".", "x", "m", "l">>, <<"B", ".", "x", "m", "l">>,
     <<"a", "b", ".", "x", "m", "l">>, <<"a", ".", "t", "x", "t">>,
     <<"x", "m", "l">>, <<"c", ".", "X", "M", "L">>}

WrapperDoc ==
    Document(XML_DECL \o <<"\n">>,
             Elem("testsuites", NoAttrs,
                  <<Elem("testsuite", [NoAttrs EXCEPT !.tests = Some(2), !.failures = Some(1)],
                         <<FailCaseElem, PassCaseElem>>)>>),
             "gt", TRUE)
SuiteDoc ==
    Document(<<>>, Elem("testsuite", [NoAttrs EXCEPT !.tests = Some(1)], <<PassCaseElem>>),
             "space", TRUE)
MalformedDoc ==
    Document(XML_DECL, Elem("testsuite", [NoAttrs EXCEPT !.tests = Some(1)], <<PassCaseElem>>),
             "space", FALSE)

\* a file: its name, whether read_to_string succeeds on it, and its content
File(name, readable, content) == [name |-> name, readable |-> readable, content |-> content]

FileKinds ==
    {<<TRUE, WrapperDoc>>, <<TRUE, SuiteDoc>>, <<TRUE, MalformedDoc>>, <<FALSE, MalformedDoc>>}

\* a directory: at most MaxEntries files, no two of the same name
Directories ==
    UNION {{{File(n, k[n][1], k[n][2]) : n \in ns} : k \in [ns -> FileKinds]} :
              ns \in {x \in SUBSET FileNames : Cardinality(x) <= MaxEntries}}

DIR_PATH == <<"d">>

join(dir, name) == dir \o <<"/">> \o name

-----------------------------------------------------------------------------
(* parse_file *)

IO_ERROR == Ctx("std::io::Error", None)

read_to_string(f) ==
    IF f.readable THEN Ok(f.content) ELSE Err(<<IO_ERROR>>, NoDoc)

parse_file(file_path, f) ==
    LET content == context(read_to_string(f), Ctx("Failed to read file", Some(file_path)))
    IN  IF ~content.ok THEN Err(content.err, EmptyReport)
        ELSE parse_str(content.val)

-----------------------------------------------------------------------------
(* parse_directory, one action per step.  read_dir yields the entries in   *)
(* an order the file system chooses; yielding an entry can itself fail.    *)

ReturnDir(r) == pd_ret' = [returned |-> TRUE, res |-> r] /\ pc' = "returned"

ReadDir ==
    /\ pc = "read_dir"
    /\ IF path.readable
       THEN pending' = fs /\ pc' = "loop" /\ UNCHANGED pd_ret
       ELSE /\ ReturnDir(Err(<<Ctx("Failed to read directory", Some(DIR_PATH)), IO_ERROR>>,
                             <<>>))
            /\ UNCHANGED pending
    /\ UNCHANGED <<path, fs, results, parsed, pf_ret, outcome, aggVars, parseVars, appVars>>

EntryError ==
    /\ pc = "loop" /\ pending # {}
    /\ ReturnDir(Err(<<IO_ERROR>>, <<>>))
    /\ UNCHANGED <<path, fs, pending, results, parsed, pf_ret, outcome, aggVars, parseVars, appVars>>

\* the loop body skipping a file that fails, going on with the next entry
LoopBody_skip_failed ==
    /\ pc = "loop"
    /\ \E entry \in pending :
        LET file_path == join(DIR_PATH, entry.name)
        IN  /\ pending' = pending \ {entry}
            /\ IF is_xml(entry.name)
               THEN LET r == parse_file(file_path, entry)
                    IN  /\ parsed' = Append(parsed, entry.name)
                        /\ pf_ret' = [called |-> TRUE, name |-> file_path, res |-> r]
                        /\ results' = IF r.ok THEN Append(results, <<entry.name, r.val>>)
                                      ELSE results
                        /\ UNCHANGED <<pd_ret, pc>>
               ELSE UNCHANGED <<parsed, pf_ret, results, pd_ret, pc>>
    /\ UNCHANGED <<path, fs, outcome, aggVars, parseVars, appVars>>

\* the loop body leaving the loop at a file that fails, so that the scan
\* returns what it has collected so far
LoopBody_break_on_failure ==
    /\ pc = "loop"
    /\ \E entry \in pending :
        LET file_path == join(DIR_PATH, entry.name)
        IN  /\ pending' = pending \ {entry}
            /\ IF is_xml(entry.name)
               THEN LET r == parse_file(file_path, entry)
                    IN  /\ parsed' = Append(parsed, entry.name)
                        /\ pf_ret' = [called |-> TRUE, name |-> file_path, res |-> r]
                        /\ IF r.ok
                           THEN /\ results' = Append(results, <<entry.name, r.val>>)
                                /\ UNCHANGED <<pd_ret, pc>>
                           ELSE /\ results' = sort_by_name(results)
                                /\ pd_ret' = [returned |-> TRUE, res |-> Ok(results')]
                                /\ pc' = "returned"
               ELSE UNCHANGED <<parsed, pf_ret, results, pd_ret, pc>>
    /\ UNCHANGED <<path, fs, outcome, aggVars, parseVars, appVars>>

LoopBody ==
    /\ pc = "loop"
    /\ \E entry \in pending :
        LET file_path == join(DIR_PATH, entry.name)
        IN  /\ pending' = pending \ {entry}
            /\ IF is_xml(entry.name)
               THEN LET filename == entry.name
                        r == parse_file(file_path, entry)
                        suites == context(r, Ctx("Failed to parse", Some(file_path)))
                    IN  /\ parsed' = Append(parsed, entry.name)
                        /\ pf_ret' = [called |-> TRUE, name |-> file_path, res |-> r]
                        /\ IF suites.ok
                           THEN /\ results' = Append(results, <<filename, suites.val>>)
                                /\ UNCHANGED <<pd_ret, pc>>
                           ELSE /\ ReturnDir(Err(suites.err, <<>>))
                                /\ UNCHANGED results
               ELSE UNCHANGED <<parsed, pf_ret, results, pd_ret, pc>>
    /\ UNCHANGED <<path, fs, outcome, aggVars, parseVars, appVars>>

SortAndReturn ==
    /\ pc = "loop" /\ pending = {}
    /\ results' = sort_by_name(results)
    /\ ReturnDir(Ok(results'))
    /\ UNCHANGED <<path, fs, pending, parsed, pf_ret, outcome, aggVars, parseVars, appVars>>

-----------------------------------------------------------------------------
(* main, up to App::new *)

FileReport(filename, data) == [filename |-> filename, data |-> data]

Failed(chain) == [kind |-> "error", err |-> chain, files |-> <<>>]
Viewer(files) == [kind |-> "viewer", err |-> <<>>, files |-> files]

MainStart ==
    /\ pc = "main"
    /\ IF path.kind = "missing"
       THEN /\ outcome' = Failed(<<Ctx("Path does not exist", Some(path.name))>>)
            /\ pc' = "done"
            /\ UNCHANGED pf_ret
       ELSE IF path.kind = "dir"
       THEN pc' = "read_dir" /\ UNCHANGED <<outcome, pf_ret>>
       ELSE LET f == CHOOSE x \in fs : TRUE
                r == parse_file(path.name, f)
                data == context(r, Ctx("Failed to parse file", Some(path.name)))
            IN  /\ pf_ret' = [called |-> TRUE, name |-> path.name, res |-> r]
                /\ outcome' = IF data.ok
                              THEN Viewer(<<FileReport(f.name, data.val)>>)
                              ELSE Failed(data.err)
                /\ pc' = "done"
    /\ UNCHANGED <<path, fs, pending, results, parsed, pd_ret, aggVars, parseVars, appVars>>

\* main without the check for an empty list
MainAfterDirectory_no_empty_check ==
    /\ pc = "returned"
    /\ LET parsed_dir == context(pd_ret.res, Ctx("Failed to parse directory", Some(DIR_PATH)))
       IN  outcome' =
               IF ~parsed_dir.ok THEN Failed(parsed_dir.err)
               ELSE Viewer([i \in 1..Len(parsed_dir.val) |->
                               FileReport(parsed_dir.val[i][1], parsed_dir.val[i][2])])
    /\ pc' = "done"
    /\ UNCHANGED <<path, fs, pending, results, parsed, pf_ret, pd_ret, aggVars, parseVars, appVars>>

MainAfterDirectory ==
    /\ pc = "returned"
    /\ LET parsed_dir == context(pd_ret.res, Ctx("Failed to parse directory", Some(DIR_PATH)))
       IN  outcome' =
               IF ~parsed_dir.ok THEN Failed(parsed_dir.err)
               ELSE IF parsed_dir.val = <<>>
               THEN Failed(<<Ctx("No XML files found in", Some(DIR_PATH))>>)
               ELSE Viewer([i \in 1..Len(parsed_dir.val) |->
                               FileReport(parsed_dir.val[i][1], parsed_dir.val[i][2])])
    /\ pc' = "done"
    /\ UNCHANGED <<path, fs, pending, results, parsed, pf_ret, pd_ret, aggVars, parseVars, appVars>>

-----------------------------------------------------------------------------
(* The viewer: App (app.rs).  usize indexes are 0-based as in the code;    *)
(* scroll_offset is a u16, modelled with U16_BITS bits.                    *)

\* width of scroll_offset
U16_BITS == 2
U16_MAX == 2 ^ U16_BITS - 1

\* page_down and page_up repeat a single step this many times
PAGE_STEP == 10

View == {"SuiteList", "TestList", "TestDetail"}

App_new(files) ==
    [files |-> files, selected_file |-> 0, selected_suite |-> 0,
     selected_test |-> 0, view |-> "SuiteList", scroll_offset |-> 0,
     should_quit |-> FALSE, multi_file |-> Len(files) > 1]

current_file(a) == a.files[a.selected_file + 1]

suite_count(a) == Len(current_file(a).data.suites)

test_count(a) ==
    IF a.selected_suite < suite_count(a)
    THEN Len(current_file(a).data.suites[a.selected_suite + 1].test_cases)
    ELSE 0

usize_saturating_sub(n, m) == IF n >= m THEN n - m ELSE 0

u16_saturating_add(n, m) == IF n + m <= U16_MAX THEN n + m ELSE U16_MAX

\* select_next without the test against the count
select_next_unbounded(a) ==
    CASE a.view = "SuiteList" -> [a EXCEPT !.selected_suite = @ + 1]
      [] a.view = "TestList" -> [a EXCEPT !.selected_test = @ + 1]
      [] a.view = "TestDetail" ->
            [a EXCEPT !.scroll_offset = u16_saturating_add(@, 1)]

select_next(a) ==
    CASE a.view = "SuiteList" ->
            LET count == suite_count(a)
            IN  IF count > 0 /\ a.selected_suite < count - 1
                THEN [a EXCEPT !.selected_suite = @ + 1] ELSE a
      [] a.view = "TestList" ->
            LET count == test_count(a)
            IN  IF count > 0 /\ a.selected_test < count - 1
                THEN [a EXCEPT !.selected_test = @ + 1] ELSE a
      [] a.view = "TestDetail" ->
            [a EXCEPT !.scroll_offset = u16_saturating_add(@, 1)]

select_prev(a) ==
    CASE a.view = "SuiteList" ->
            [a EXCEPT !.selected_suite = usize_saturating_sub(@, 1)]
      [] a.view = "TestList" ->
            [a EXCEPT !.selected_test = usize_saturating_sub(@, 1)]
      [] a.view = "TestDetail" ->
            [a EXCEPT !.scroll_offset = usize_saturating_sub(@, 1)]

select_first(a) ==
    CASE a.view = "SuiteList" -> [a EXCEPT !.selected_suite = 0]
      [] a.view = "TestList" -> [a EXCEPT !.selected_test = 0]
      [] a.view = "TestDetail" -> [a EXCEPT !.scroll_offset = 0]

select_last(a) ==
    CASE a.view = "SuiteList" ->
            LET count == suite_count(a)
            IN  IF count > 0 THEN [a EXCEPT !.selected_suite = count - 1] ELSE a
      [] a.view = "TestList" ->
            LET count == test_count(a)
            IN  IF count > 0 THEN [a EXCEPT !.selected_test = count - 1] ELSE a
      [] a.view = "TestDetail" -> [a EXCEPT !.scroll_offset = U16_MAX \div 2]

\* enter without the tests against the counts
enter_unguarded(a) ==
    CASE a.view = "SuiteList" -> [a EXCEPT !.selected_test = 0, !.view = "TestList"]
      [] a.view = "TestList" -> [a EXCEPT !.scroll_offset = 0, !.view = "TestDetail"]
      [] a.view = "TestDetail" -> a

enter(a) ==
    CASE a.view = "SuiteList" ->
            IF suite_count(a) > 0
            THEN [a EXCEPT !.selected_test = 0, !.view = "TestList"] ELSE a
      [] a.view = "TestList" ->
            IF test_count(a) > 0
            THEN [a EXCEPT !.scroll_offset = 0, !.view = "TestDetail"] ELSE a
      [] a.view = "TestDetail" -> a

go_back(a) ==
    CASE a.view = "SuiteList" -> a
      [] a.view = "TestList" -> [a EXCEPT !.view = "SuiteList"]
      [] a.view = "TestDetail" -> [a EXCEPT !.view = "TestList"]

reset_selection(a) ==
    [a EXCEPT !.selected_suite = 0, !.selected_test = 0, !.scroll_offset = 0,
              !.view = "SuiteList"]

\* next_file that keeps the selection of the file it leaves
next_file_keeps_selection(a) ==
    IF a.multi_file
    THEN [a EXCEPT !.selected_file = (a.selected_file + 1) % Len(a.files)]
    ELSE a

next_file(a) ==
    IF a.multi_file
    THEN reset_selection(
            [a EXCEPT !.selected_file = (a.selected_file + 1) % Len(a.files)])
    ELSE a

prev_file(a) ==
    IF a.multi_file
    THEN reset_selection(
            [a EXCEPT !.selected_file =
                IF a.selected_file = 0 THEN Len(a.files) - 1
                ELSE a.selected_file - 1])
    ELSE a

RECURSIVE select_next_times(_, _)
select_next_times(a, n) ==
    IF n = 0 THEN a ELSE select_next_times(select_next(a), n - 1)

RECURSIVE select_prev_times(_, _)
select_prev_times(a, n) ==
    IF n = 0 THEN a ELSE select_prev_times(select_prev(a), n - 1)

page_down(a) == select_next_times(a, PAGE_STEP)

page_up(a) == select_prev_times(a, PAGE_STEP)

\* ui::render: whether the view's renderer indexes inside the vectors
render_in_bounds(a) ==
    /\ a.selected_file < Len(a.files)
    /\ a.view \in {"TestList", "TestDetail"} => a.selected_suite < suite_count(a)
    /\ a.view = "TestDetail" => a.selected_test < test_count(a)

-----------------------------------------------------------------------------
(* The viewer's loop: one action per binding of handle_key (event.rs).     *)
(* run_loop returns once should_quit is set, so no key is handled after.   *)

NoRun == [key |-> "none", count |-> 0, start |-> 0]
NoBar == [drawn |-> FALSE, ok |-> TRUE, tests |-> 0, passed |-> 0,
          failures |-> 0, errors |-> 0, skipped |-> 0]

AppIdle ==
    /\ app = App_new(<<>>) /\ key = "none" /\ before = App_new(<<>>)
    /\ run = NoRun /\ bar = NoBar

\* the history of a key press: the App it found and, for Tab and BackTab,
\* how many presses of that key in a row this makes since which file
Pressed(k) ==
    /\ key' = k
    /\ before' = app
    /\ run' = IF k \notin {"next_file", "prev_file"} THEN NoRun
              ELSE IF run.key = k /\ run.count < Len(app.files)
              THEN [run EXCEPT !.count = @ + 1]
              ELSE [key |-> k, count |-> 1, start |-> app.selected_file]
    /\ UNCHANGED <<bar, aggVars, parseVars, dirVars>>

KeyQuit ==
    /\ ~app.should_quit
    /\ app' = [app EXCEPT !.should_quit = TRUE]
    /\ Pressed("quit")

KeySelectNext == ~app.should_quit /\ app' = select_next(app) /\ Pressed("select_next")

KeySelectPrev == ~app.should_quit /\ app' = select_prev(app) /\ Pressed("select_prev")

KeySelectFirst == ~app.should_quit /\ app' = select_first(app) /\ Pressed("select_first")

KeySelectLast == ~app.should_quit /\ app' = select_last(app) /\ Pressed("select_last")

KeyPageDown == ~app.should_quit /\ app' = page_down(app) /\ Pressed("page_down")

KeyPageUp == ~app.should_quit /\ app' = page_up(app) /\ Pressed("page_up")

KeyEnter == ~app.should_quit /\ app' = enter(app) /\ Pressed("enter")

KeyGoBack == ~app.should_quit /\ app' = go_back(app) /\ Pressed("go_back")

KeyNextFile == ~app.should_quit /\ app' = next_file(app) /\ Pressed("next_file")

KeyPrevFile == ~app.should_quit /\ app' = prev_file(app) /\ Pressed("prev_file")

\* any key handle_key has no binding for
KeyOther == ~app.should_quit /\ app' = app /\ Pressed("other")

\* most files the viewer is opened on
MaxFiles == 3

PassedCase == TestCase("t", None, None, None)

\* a file's shape: the number of test cases of each of its suites
NavShapes == {<<>>, <<2, 0>>, <<1>>}

NavFile(shape) ==
    FileReport("f",
        TestSuites(None, None, None, None,
            [i \in 1..Len(shape) |->
                TestSuite("s", shape[i], 0, 0, None,
                          [k \in 1..shape[i] |-> PassedCase])]))

NavFileLists ==
    UNION {[1..n -> {NavFile(sh) : sh \in NavShapes}] : n \in 1..MaxFiles}

InitApp ==
    /\ app \in {App_new(fl) : fl \in NavFileLists}
    /\ key = "none" /\ before = app /\ run = NoRun /\ bar = NoBar
    /\ AggIdle /\ ParseIdle /\ DirIdle

NextApp ==
    \/ KeyQuit
    \/ KeySelectNext
    \/ KeySelectPrev
    \/ KeySelectFirst
    \/ KeySelectLast
    \/ KeyPageDown
    \/ KeyPageUp
    \/ KeyEnter
    \/ KeyGoBack
    \/ KeyNextFile
    \/ KeyPrevFile
    \/ KeyOther

SpecApp == InitApp /\ [][NextApp]_vars

-----------------------------------------------------------------------------
(* The status bar: App's aggregates over the loaded files.  Each is         *)
(* Iterator::sum over the files' totals, with the overflow behaviour of    *)
(* the build.                                                              *)

RECURSIVE sum_checked(_, _)
sum_checked(rs, oc) ==
    IF rs = <<>> THEN Val(0)
    ELSE add(sum_checked(SubSeq(rs, 1, Len(rs) - 1), oc), rs[Len(rs)], oc)

aggregate_tests(a, oc) ==
    sum_checked([i \in 1..Len(a.files) |-> total_tests(a.files[i].data, oc)], oc)

aggregate_passed(a, oc) ==
    sum_checked([i \in 1..Len(a.files) |-> total_passed(a.files[i].data, oc)], oc)

aggregate_failures(a, oc) ==
    sum_checked([i \in 1..Len(a.files) |-> total_failures(a.files[i].data, oc)], oc)

aggregate_errors(a, oc) ==
    sum_checked([i \in 1..Len(a.files) |-> total_errors(a.files[i].data, oc)], oc)

aggregate_skipped(a, oc) ==
    sum_checked([i \in 1..Len(a.files) |-> total_skipped(a.files[i].data, oc)], oc)

\* ui::render_status_bar formats the five aggregates; a panic in one of
\* them ends the draw
RenderStatusBar ==
    /\ LET t == aggregate_tests(app, overflow_checks)
           p == aggregate_passed(app, overflow_checks)
           f == aggregate_failures(app, overflow_checks)
           e == aggregate_errors(app, overflow_checks)
           s == aggregate_skipped(app, overflow_checks)
       IN  bar' = [drawn |-> TRUE,
                   ok |-> t.ok /\ p.ok /\ f.ok /\ e.ok /\ s.ok,
                   tests |-> t.val, passed |-> p.val, failures |-> f.val,
                   errors |-> e.val, skipped |-> s.val]
    /\ UNCHANGED <<app, key, before, run, aggVars, parseVars, dirVars>>

\* most files the status bar aggregates over
MaxBarFiles == 2

BarSuites ==
    {TestSuite("s", t, f, e, sk, <<>>) :
        t \in {0, 2, U64_MAX}, f \in {0, 3, U64_MAX}, e \in {0, 1},
        sk \in {None, Some(1)}}

BarFiles == {FileReport("f", TestSuites(None, None, None, None, <<s>>)) : s \in BarSuites}

BarFileLists == UNION {[1..n -> BarFiles] : n \in 1..MaxBarFiles}

InitBar ==
    /\ app \in {App_new(fl) : fl \in BarFileLists}
    /\ key = "none" /\ before = app /\ run = NoRun /\ bar = NoBar
    /\ report = EmptyReport /\ tcase = None /\ ret = NoCall
    /\ overflow_checks \in BOOLEAN
    /\ ParseIdle /\ DirIdle

NextBar == RenderStatusBar

SpecBar == InitBar /\ [][NextBar]_vars

Paths ==
    {[kind |-> "missing", name |-> DIR_PATH, readable |-> FALSE]}
    \cup {[kind |-> "dir", name |-> DIR_PATH, readable |-> r] : r \in BOOLEAN}
    \cup {[kind |-> "file", name |-> n, readable |-> TRUE] : n \in FileNames}

Init ==
    /\ path \in Paths
    /\ fs \in Directories
    /\ path.kind = "missing" => fs = {}
    /\ path.kind = "file" => Cardinality(fs) = 1 /\ \A f \in fs : f.name = path.name
    /\ pending = {} /\ results = <<>> /\ parsed = <<>>
    /\ pf_ret = NoParseFile /\ pd_ret = NotReturned
    /\ pc = "main" /\ outcome = Running
    /\ AggIdle /\ ParseIdle /\ AppIdle

Next ==
    \/ MainStart
    \/ ReadDir
    \/ EntryError
    \/ LoopBody
    \/ SortAndReturn
    \/ MainAfterDirectory

Spec == Init /\ [][Next]_vars

-----------------------------------------------------------------------------
(* Specifications of the pure parts *)

InitAgg ==
    /\ report \in Reports /\ overflow_checks \in BOOLEAN
    /\ tcase = None /\ ret = NoCall
    /\ ParseIdle /\ DirIdle /\ AppIdle

NextAgg ==
    \/ CallStatus
    \/ CallTotalTests
    \/ CallTotalFailures
    \/ CallTotalErrors
    \/ CallTotalSkipped
    \/ CallTotalPassed

SpecAgg == InitAgg /\ [][NextAgg]_vars

InitParse ==
    /\ doc \in Docs /\ trim_text \in BOOLEAN /\ pret = NotParsed
    /\ AggIdle /\ DirIdle /\ AppIdle

NextParse == ParseStr

SpecParse == InitParse /\ [][NextParse]_vars

-----------------------------------------------------------------------------
(* Claims about classification and aggregation (checked under SpecAgg)     *)

Present(tc) == [failure |-> tc.failure # None, error |-> tc.error # None,
                skipped |-> tc.skipped # None]

\* C1: status is total over the 8 marker combinations: it returns one of the
\* four outcomes; Failed exactly when a Failure marker is present, Errored
\* exactly when there is an Error marker and no Failure, Skipped exactly when
\* there is only a Skipped marker, Passed exactly when there is no marker.
C1_StatusFirstMatch ==
    ret.fn = "status" =>
        LET m == Present(tcase[1])
        IN  /\ ret.ok
            /\ ret.val \in TestStatus
            /\ (ret.val = "Failed") <=> m.failure
            /\ (ret.val = "Errored") <=> (~m.failure /\ m.error)
            /\ (ret.val = "Skipped") <=> (~m.failure /\ ~m.error /\ m.skipped)
            /\ (ret.val = "Passed") <=> (~m.failure /\ ~m.error /\ ~m.skipped)

\* C1 witness: a case carrying a Failure and a Skipped marker was classified Failed
C1_Witness ==
    /\ ret.fn = "status"
    /\ Present(tcase[1]).failure /\ Present(tcase[1]).skipped
    /\ ret.val = "Failed"

RECURSIVE MathSum(_)
MathSum(s) == IF s = <<>> THEN 0 ELSE Head(s) + MathSum(Tail(s))

Max(a, b) == IF a >= b THEN a ELSE b

SumTests == MathSum(map(report.suites, suite_tests))
SumFailures == MathSum(map(report.suites, suite_failures))
SumErrors == MathSum(map(report.suites, suite_errors))
SumSkipped == MathSum(map(report.suites, suite_skipped))

\* C2: for every Report, total_passed() returns
\* max(0, total_tests - total_failures - total_errors - total_skipped), the
\* totals being the sums of the suites' fields: never a wrapped or overflowed value.
C2_PassedIsFloorAtZero ==
    ret.fn = "total_passed" =>
        /\ ret.ok
        /\ ret.val = Max(0, SumTests - SumFailures - SumErrors - SumSkipped)

\* C3: for every Report, total_tests(), total_failures(), total_errors() and
\* total_skipped() return the sum of that field over the suites (an absent
\* skipped counting 0), whatever the Report's declared attributes and the
\* suites' test cases are.
C3_TotalsAreSuiteSums ==
    /\ ret.fn = "total_tests" => ret.ok /\ ret.val = SumTests
    /\ ret.fn = "total_failures" => ret.ok /\ ret.val = SumFailures
    /\ ret.fn = "total_errors" => ret.ok /\ ret.val = SumErrors
    /\ ret.fn = "total_skipped" => ret.ok /\ ret.val = SumSkipped

-----------------------------------------------------------------------------
(* Claims about parse_str (checked under SpecParse)                        *)

\* C4: for every well-formed document whose root is a bare suite element,
\* whatever precedes the root and however the start tag goes on after the
\* name, parse_str takes the single-suite path and returns a Report with
\* exactly one Suite, declared tests/failures/errors Some(the suite's own
\* values) and skipped copied as it is.
C4_BareSuiteRootGivesOneSuite ==
    (pret.called /\ doc.well_formed /\ doc.root.tag = "testsuite") =>
        /\ pret.root_is_testsuite
        /\ pret.res.ok
        /\ Len(pret.res.val.suites) = 1
        /\ pret.res.val.tests = Some(unwrap_or(doc.root.attrs.tests, 0))
        /\ pret.res.val.failures = Some(unwrap_or(doc.root.attrs.failures, 0))
        /\ pret.res.val.errors = Some(unwrap_or(doc.root.attrs.errors, 0))
        /\ pret.res.val.skipped = doc.root.attrs.skipped

ChildSuites(e) == SelectSeq(e.children, LAMBDA c : c.tag = "testsuite")

\* C5: for every well-formed document whose root is the wrapper, parse_str
\* does not take the single-suite path, and the Report's suites are the
\* wrapper's child suite elements, as many and in document order.
C5_WrapperRootGivesChildSuites ==
    (pret.called /\ doc.well_formed /\ doc.root.tag = "testsuites") =>
        /\ ~pret.root_is_testsuite
        /\ pret.res.ok
        /\ Len(pret.res.val.suites) = Len(ChildSuites(doc.root))
        /\ \A i \in 1..Len(ChildSuites(doc.root)) :
              pret.res.val.suites[i].tests
                  = unwrap_or(ChildSuites(doc.root)[i].attrs.tests, 0)

-----------------------------------------------------------------------------
(* Claims about parse_file, parse_directory and main (checked under Spec)  *)

DOT_XML == <<".", "x", "m", "l">>

\* a name with the recognized report extension
HasXmlExtension(name) ==
    Len(name) > Len(DOT_XML)
    /\ SubSeq(name, Len(name) - Len(DOT_XML) + 1, Len(name)) = DOT_XML

\* reading and parsing the file succeeds
Parses(f) == f.readable /\ f.content.well_formed

Recognized == {f \in fs : HasXmlExtension(f.name)}

FileNamed(n) == CHOOSE f \in fs : f.name = n

\* a before b in ascending byte order
LexLess(a, b) ==
    \E k \in 1..(Len(b)) :
        /\ k <= Len(a) + 1
        /\ \A j \in 1..(k - 1) : a[j] = b[j]
        /\ k <= Len(a) => Byte(a[k]) < Byte(b[k])

\* the scan ended on a failure of read_dir or of yielding an entry
EnumerationFailed ==
    /\ pd_ret.returned /\ ~pd_ret.res.ok
    /\ pd_ret.res.err[1].msg \in {"Failed to read directory", "std::io::Error"}

ScanList == pd_ret.res.val

\* C6: when every recognized file parses (and the directory can be
\* enumerated), parse_directory returns exactly one (filename, Report) pair
\* per file with the recognized extension, none for the other entries, in
\* ascending byte order of the filenames, whatever order read_dir yielded them in.
C6_ScanReturnsRecognizedSorted ==
    (pd_ret.returned /\ ~EnumerationFailed /\ \A f \in Recognized : Parses(f)) =>
        /\ pd_ret.res.ok
        /\ Len(ScanList) = Cardinality(Recognized)
        /\ {ScanList[i][1] : i \in 1..Len(ScanList)} = {f.name : f \in Recognized}
        /\ \A i, j \in 1..Len(ScanList) :
              i < j => LexLess(ScanList[i][1], ScanList[j][1])
        /\ \A i \in 1..Len(ScanList) :
              ScanList[i][2] = parse_str(FileNamed(ScanList[i][1]).content).val

\* C6 witness: read_dir yielded two recognized files in descending order
\* beside an entry of another kind, and the scan returned its list
C6_Witness ==
    /\ pd_ret.returned /\ pd_ret.res.ok
    /\ Len(parsed) >= 2 /\ LexLess(parsed[2], parsed[1])
    /\ \E f \in fs : ~HasXmlExtension(f.name)

\* C7 (as stated): a failure of one recognized file does not keep the other
\* recognized files from being collected: the scan's result holds every
\* recognized file that parses.
C7_FailureDoesNotStopOthers ==
    (pd_ret.returned /\ ~EnumerationFailed) =>
        \A f \in Recognized :
            Parses(f) => \E i \in 1..Len(ScanList) : ScanList[i][1] = f.name

\* C7 (amended): a failure of one recognized file is a failure of the whole
\* scan: parse_directory returns that file's error under "Failed to parse:
\* <its path>" and no list, so a scan that returns a list found every
\* recognized file of the directory parseable.
C7_FailureFailsTheScan ==
    pd_ret.returned =>
        /\ pd_ret.res.ok => \A f \in Recognized : Parses(f)
        /\ \A i \in 1..Len(parsed) :
              ~Parses(FileNamed(parsed[i])) =>
                  /\ ~pd_ret.res.ok
                  /\ ScanList = <<>>
                  /\ pd_ret.res.err[1]
                         = Ctx("Failed to parse", Some(join(DIR_PATH, parsed[i])))

\* C7 witness: the scan failed on a malformed file although another
\* recognized file of the directory parses
C7_Witness ==
    /\ pd_ret.returned /\ ~pd_ret.res.ok
    /\ parsed # <<>>
    /\ LET f == FileNamed(parsed[Len(parsed)])
       IN  f.readable /\ ~f.content.well_formed
    /\ \E g \in Recognized : Parses(g)

\* C8: the first recognized file that fails to read or parse ends the scan
\* at once: it is the last file parse_file is called on, parse_directory has
\* returned an error and no list (the Reports already collected are not
\* returned), and main does not start the viewer.
C8_FirstFailureReturnsAtOnce ==
    path.kind = "dir" =>
        \A i \in 1..Len(parsed) :
            ~Parses(FileNamed(parsed[i])) =>
                /\ i = Len(parsed)
                /\ pd_ret.returned /\ ~pd_ret.res.ok /\ ScanList = <<>>
                /\ pc = "done" => outcome.kind = "error"

\* C8 witness: a file failed after another had been parsed, while a
\* recognized file that parses had not been yielded yet
C8_Witness ==
    /\ pd_ret.returned /\ ~pd_ret.res.ok
    /\ results # <<>>
    /\ parsed # <<>> /\ ~Parses(FileNamed(parsed[Len(parsed)]))
    /\ \E g \in pending : HasXmlExtension(g.name) /\ Parses(g)

NO_XML_FILES == Ctx("No XML files found in", Some(DIR_PATH))

\* C9 (as stated): a scan that finds no recognized file is reported by the
\* directory-parse operation as a condition of its own: parse_directory
\* does not return a successful, empty list.
C9_EmptyScanIsNotSuccess ==
    (pd_ret.returned /\ Recognized = {}) => ~pd_ret.res.ok

\* C9 (amended): parse_directory returns a successful empty list exactly
\* when the directory has no recognized file; main then fails with "No XML
\* files found in: <path>", an error it gives in no other case, and the
\* viewer is never started with an empty file list.
C9_EmptyScanFailsInMain ==
    /\ (pd_ret.returned /\ pd_ret.res.ok) => (ScanList = <<>> <=> Recognized = {})
    /\ (pc = "done" /\ pd_ret.returned /\ pd_ret.res.ok /\ Recognized = {})
           => outcome = Failed(<<NO_XML_FILES>>)
    /\ (outcome.kind = "error" /\ outcome.err[1] = NO_XML_FILES)
           => (pd_ret.res.ok /\ Recognized = {})
    /\ outcome.kind = "viewer" => outcome.files # <<>>

\* C9 witness: main ended on a directory that holds entries, none recognized
C9_Witness ==
    /\ pc = "done" /\ fs # {} /\ Recognized = {}
    /\ pd_ret.returned /\ pd_ret.res.ok
    /\ outcome = Failed(<<NO_XML_FILES>>)

\* C10: every error parse_file returns carries the path of the file and the
\* underlying cause, for a file that cannot be read and for one whose
\* content is malformed.
C10_ParseFileErrorsCarryPath ==
    (pf_ret.called /\ ~pf_ret.res.ok) =>
        /\ \E i \in 1..Len(pf_ret.res.err) : pf_ret.res.err[i].path = Some(pf_ret.name)
        /\ pf_ret.res.err[Len(pf_ret.res.err)] \in {IO_ERROR, DE_ERROR}

-----------------------------------------------------------------------------
\* C11: parse_str is all-or-nothing.  A document that is not well-formed,
\* or whose root element is named by neither convention (neither testsuite
\* nor testsuites), yields an error and never a Report; and a document
\* detected as a bare suite that does not deserialize fails with the bare
\* suite's error, without a second attempt under the wrapper convention.
C11_ParseIsAllOrNothing ==
    pret.called =>
        /\ (~doc.well_formed \/ doc.root.tag \notin {"testsuite", "testsuites"})
              => ~pret.res.ok
        /\ (pret.root_is_testsuite /\ ~doc.well_formed)
              => /\ ~pret.res.ok
                 /\ pret.res.err[1].msg = "Failed to parse JUnit XML (testsuite root)"

-----------------------------------------------------------------------------
(* Claims about case-level markers and the skipped total (under SpecAgg)   *)

OnlySkippedMarker(tc) ==
    tc.failure = None /\ tc.error = None /\ tc.skipped = Some(Marker)

NoExplicitSkipped(r) == \A i \in 1..Len(r.suites) : r.suites[i].skipped = None

RECURSIVE SkippedOnlyCases(_)
SkippedOnlyCases(ss) ==
    IF ss = <<>> THEN 0
    ELSE Len(SelectSeq(Head(ss).test_cases, OnlySkippedMarker))
         + SkippedOnlyCases(Tail(ss))

\* C12 as stated: a test case whose only marker is a Skipped element with no
\* message classifies as Skipped and is counted by total_skipped even though
\* its suite has no explicit skipped attribute.
C12_SkippedMarkerCounts ==
    /\ (ret.fn = "status" /\ OnlySkippedMarker(tcase[1])) => ret.val = "Skipped"
    /\ (ret.fn = "total_skipped" /\ NoExplicitSkipped(report))
          => ret.ok /\ ret.val = SkippedOnlyCases(report.suites)

\* C12 amended: such a test case classifies as Skipped, but total_skipped
\* does not count it: suites with no explicit skipped attribute count 0
\* skipped whatever markers their test cases carry.
C12_SkippedMarkerNotCounted ==
    /\ (ret.fn = "status" /\ OnlySkippedMarker(tcase[1])) => ret.val = "Skipped"
    /\ (ret.fn = "total_skipped" /\ NoExplicitSkipped(report))
          => ret.ok /\ ret.val = 0

\* C12 witness: total_skipped returned 0 on a Report holding a case whose
\* only marker is Skipped, in suites with no skipped attribute
C12_Witness ==
    /\ ret.fn = "total_skipped" /\ ret.ok /\ ret.val = 0
    /\ NoExplicitSkipped(report)
    /\ SkippedOnlyCases(report.suites) > 0

-----------------------------------------------------------------------------
(* Claims about defaults (checked under SpecParse) *)

\* the suite elements parse_str deserializes suites from
SourceSuites == IF pret.root_is_testsuite THEN <<doc.root>> ELSE ChildSuites(doc.root)

PropertyElemsOf(e) ==
    LET ps == SelectSeq(e.children, LAMBDA c : c.tag = "properties")
    IN  IF ps = <<>> THEN <<>>
        ELSE SelectSeq(ps[1].children, LAMBDA c : c.tag = "property")

Incomplete(p) == p.attrs.name = None \/ p.attrs.value = None

CaseDefaults(tc, e) ==
    (e.attrs = NoAttrs /\ e.children = <<>>)
        => /\ tc.name = "" /\ tc.classname = None /\ tc.time = None /\ tc.file = None
           /\ tc.failure = None /\ tc.error = None /\ tc.skipped = None

SuiteDefaults(s, e) ==
    LET ce == SelectSeq(e.children, LAMBDA c : c.tag = "testcase")
    IN  /\ e.attrs.name = None => s.name = ""
        /\ e.attrs.tests = None => s.tests = 0
        /\ e.attrs.failures = None => s.failures = 0
        /\ e.attrs.errors = None => s.errors = 0
        /\ e.attrs.skipped = None => s.skipped = None
        /\ e.attrs.time = None => s.time = None
        /\ e.attrs.timestamp = None => s.timestamp = None
        /\ (\A i \in 1..Len(e.children) : e.children[i].tag # "properties")
              => s.properties = None
        /\ Len(s.test_cases) = Len(ce)
        /\ \A k \in 1..Len(ce) : CaseDefaults(s.test_cases[k], ce[k])

\* C13: the absence of an optional attribute or child never makes a parse
\* fail.  A well-formed document fails to parse exactly when one of its
\* suites has a Property without name or without value; otherwise a suite
\* with no name, tests, failures or errors attribute has name "" and those
\* counters 0, an absent skipped, time, timestamp or properties stays
\* absent, and a test case with no attribute and no child has name "" and
\* no marker.
C13_AbsenceNeverFails ==
    (pret.called /\ doc.well_formed) =>
        LET src == SourceSuites
        IN  /\ pret.res.ok <=>
                  \A i \in 1..Len(src) :
                      \A j \in 1..Len(PropertyElemsOf(src[i])) :
                          ~Incomplete(PropertyElemsOf(src[i])[j])
            /\ pret.res.ok =>
                  /\ Len(pret.res.val.suites) = Len(src)
                  /\ \A i \in 1..Len(src) :
                        SuiteDefaults(pret.res.val.suites[i], src[i])

\* C13 witness: a bare suite with no attribute, holding a test case with no
\* attribute and no child, parsed to a suite named "" with counters 0
C13_Witness ==
    /\ pret.called /\ pret.res.ok /\ pret.root_is_testsuite
    /\ doc.root = Elem("testsuite", NoAttrs, <<BareCaseElem>>)
    /\ pret.res.val.suites[1].name = "" /\ pret.res.val.suites[1].tests = 0
    /\ pret.res.val.suites[1].test_cases[1].name = ""

-----------------------------------------------------------------------------
(* Claims about failure and error bodies (checked under SpecParse) *)

RECURSIVE CharsOf(_)
CharsOf(content) ==
    IF content = <<>> THEN <<>> ELSE Head(content).chars \o CharsOf(Tail(content))

\* marker m was deserialized from the optional element o
BodyIsCharacters(m, o) ==
    (o # None /\ o[1].content # <<>>)
        => /\ m # None
           /\ m[1].body = Some(CharsOf(o[1].content))
           /\ m[1].message = o[1].attrs.message

\* C14: the body of a failure or error element parses to the characters it
\* represents, whether it is written as a CDATA section or as escaped text
\* (so the two forms of the same characters give identical body strings),
\* and a message attribute next to the body is kept as a separate field.
C14_CDataAndEscapedTextAgree ==
    (pret.called /\ pret.res.ok) =>
        LET src == SourceSuites
        IN  \A i \in 1..Len(src) :
                LET ce == SelectSeq(src[i].children, LAMBDA c : c.tag = "testcase")
                    tc == pret.res.val.suites[i].test_cases
                IN  \A k \in 1..Len(ce) :
                        /\ BodyIsCharacters(tc[k].failure, child(ce[k], "failure"))
                        /\ BodyIsCharacters(tc[k].error, child(ce[k], "error"))

-----------------------------------------------------------------------------
(* Claims about the viewer (checked under SpecApp) *)

\* C15: from App::new on a non-empty file list, after any sequence of key
\* presses, selected_file is below the number of files; in the TestList and
\* TestDetail views selected_suite is below the current file's suite count;
\* in the TestDetail view selected_test is below the selected suite's test
\* count: what render indexes with is in bounds.
C15_IndexesInBounds ==
    /\ app.selected_file < Len(app.files)
    /\ app.view \in {"TestList", "TestDetail"}
          => app.selected_suite < Len(app.files[app.selected_file + 1].data.suites)
    /\ app.view = "TestDetail"
          => app.selected_test <
                Len(app.files[app.selected_file + 1].data
                       .suites[app.selected_suite + 1].test_cases)
    /\ render_in_bounds(app)

\* C15 witness: in the second file, the last test of the first suite is open
\* in the TestDetail view, reached by key presses
C15_Witness ==
    /\ key # "none"
    /\ app.view = "TestDetail" /\ app.selected_file = 1
    /\ app.selected_test = 1 /\ test_count(app) = 2

SuitesOf(a) == a.files[a.selected_file + 1].data.suites

\* what enter may do to the App
EnterOneLevel(a, b) ==
    CASE a.view = "SuiteList" ->
            IF Len(SuitesOf(a)) >= 1
            THEN b = [a EXCEPT !.view = "TestList", !.selected_test = 0]
            ELSE b = a
      [] a.view = "TestList" ->
            IF /\ a.selected_suite < Len(SuitesOf(a))
               /\ Len(SuitesOf(a)[a.selected_suite + 1].test_cases) >= 1
            THEN b = [a EXCEPT !.view = "TestDetail", !.scroll_offset = 0]
            ELSE b = a
      [] a.view = "TestDetail" -> b = a

\* what go_back may do to the App
BackOneLevel(a, b) ==
    CASE a.view = "SuiteList" -> b = a
      [] a.view = "TestList" -> b = [a EXCEPT !.view = "SuiteList"]
      [] a.view = "TestDetail" -> b = [a EXCEPT !.view = "TestList"]

\* go_back returned to where the enter before it started from
BackWhereEnterStarted ==
    /\ app'.view = before.view
    /\ app'.selected_file = before.selected_file
    /\ app'.selected_suite = before.selected_suite

\* C16 as stated: enter changes the view only from SuiteList to TestList
\* (only if the current file has a suite, resetting selected_test to 0) or
\* from TestList to TestDetail (only if the selected suite has a test,
\* resetting scroll_offset to 0) and is a no-op in TestDetail; go_back
\* changes it only from TestDetail to TestList or from TestList to
\* SuiteList, is a no-op in SuiteList and leaves the three selections
\* unchanged; so every enter followed by go_back returns to the same view
\* with the same suite selected.
C16_EnterThenBackReturns ==
    [][/\ key' = "enter" => EnterOneLevel(app, app')
       /\ key' = "go_back" => BackOneLevel(app, app')
       /\ (key = "enter" /\ key' = "go_back") => BackWhereEnterStarted]_vars

\* C16 amended: the same, the last part for an enter that changed the view:
\* an enter that changed the view, followed by go_back, returns to the same
\* view with the same suite selected.
C16_ViewMovesOneLevel ==
    [][/\ key' = "enter" => EnterOneLevel(app, app')
       /\ key' = "go_back" => BackOneLevel(app, app')
       /\ (key = "enter" /\ key' = "go_back" /\ app.view # before.view)
             => BackWhereEnterStarted]_vars

\* C16 witness: go_back left the test list of the second suite, which enter
\* had opened, for the suite list with that suite still selected
C16_Witness ==
    /\ key = "go_back"
    /\ before.view = "TestList" /\ before.selected_suite = 1
    /\ app.view = "SuiteList" /\ app.selected_suite = 1

\* the App on file i, with the selections and the view reset
OnFile(a, i) ==
    [a EXCEPT !.selected_file = i, !.selected_suite = 0, !.selected_test = 0,
              !.scroll_offset = 0, !.view = "SuiteList"]

\* C17: with more than one file, next_file sets selected_file to
\* (selected_file + 1) mod files.len() and prev_file to (selected_file - 1)
\* mod files.len(); on selected_file each undoes the other, and files.len()
\* presses of one of them in a row return to the file they started from;
\* each resets selected_suite, selected_test and scroll_offset to 0 and the
\* view to SuiteList.  With exactly one file both leave the whole App
\* unchanged.
C17_FileSwitchIsCyclic ==
    [][LET len == Len(app.files)
       IN  /\ (key' = "next_file" /\ len > 1)
                 => app' = OnFile(app, (app.selected_file + 1) % len)
           /\ (key' = "prev_file" /\ len > 1)
                 => app' = OnFile(app, (app.selected_file + len - 1) % len)
           /\ (key' \in {"next_file", "prev_file"} /\ len = 1) => app' = app
           /\ ((key = "next_file" /\ key' = "prev_file")
                  \/ (key = "prev_file" /\ key' = "next_file"))
                 => app'.selected_file = before.selected_file
           /\ (key' \in {"next_file", "prev_file"} /\ run'.count = len)
                 => app'.selected_file = run'.start]_vars

\* C17 witness: with three files, three presses of Tab in a row, started on
\* the second file, are back on it
C17_Witness ==
    /\ key = "next_file" /\ Len(app.files) = 3
    /\ run.count = 3 /\ run.start = 1 /\ app.selected_file = 1

-----------------------------------------------------------------------------
(* Claims about the status bar (checked under SpecBar) *)

FieldSum(f, field(_)) == MathSum(map(f.data.suites, field))

\* a file's passed count, floored at zero
FilePassed(f) ==
    Max(0, FieldSum(f, suite_tests) - FieldSum(f, suite_failures)
           - FieldSum(f, suite_errors) - FieldSum(f, suite_skipped))

FileConsistent(f) ==
    FieldSum(f, suite_failures) + FieldSum(f, suite_errors)
        + FieldSum(f, suite_skipped) <= FieldSum(f, suite_tests)

\* C18: for every file list, aggregate_passed is the sum of each file's
\* floor-at-zero passed count; it is at least
\* max(0, aggregate_tests - aggregate_failures - aggregate_errors -
\* aggregate_skipped), and equal to it when every file has
\* failures + errors + skipped <= tests.
C18_AggregatePassedIsSumOfFloors ==
    bar.drawn =>
        LET floor == Max(0, bar.tests - bar.failures - bar.errors - bar.skipped)
        IN  /\ bar.ok
            /\ bar.passed = MathSum(map(app.files, FilePassed))
            /\ bar.passed >= floor
            /\ (\A i \in 1..Len(app.files) : FileConsistent(app.files[i]))
                  => bar.passed = floor

====
